---- MODULE Spec2Model ----
(***************************************************************************)
(* A model of the request pipeline utilities of simply-openapi-controllers: *)
(* the content-type matcher and the reference resolver (schema-utils), the  *)
(* method handler factory (createMethodHandlerFromSpec) with its value     *)
(* processors, and the parameter decorators' metadata updates.              *)
(*                                                                         *)
(* JavaScript strings are sequences of one-character strings; JavaScript   *)
(* values that may be null or undefined are records with a tag t.          *)
(***************************************************************************)
EXTENDS Integers, Sequences, FiniteSets, TLC

VARIABLES
    contentType,   \* pickContentType: the observed content type argument
    values,        \* pickContentType: the record, as its entries in property order
    picked,        \* pickContentType: what the call returned
    pickPc,        \* pickContentType: "call" before the call, "done" after it
    refSpec,       \* resolveReference: the root document (the spec argument)
    refValue,      \* resolveReference: the value argument
    refResult,     \* resolveReference: how the call ended (return or throw)
    ptrCalls,      \* resolveReference: the json-pointer calls made, in order
    refPc,         \* resolveReference: "call" before the call, "done" after it
    bSpec,         \* createMethodHandlerFromSpec: the spec argument (its paths)
    bMethod,       \* createMethodHandlerFromSpec: the method argument
    bOpts,         \* createMethodHandlerFromSpec: the opts argument
    bResult,       \* createMethodHandlerFromSpec: the MethodHandler or the thrown error
    bCalls,        \* createMethodHandlerFromSpec: resolver and factory calls, in order
    bPc,           \* createMethodHandlerFromSpec: "call" before the call, "done" after it
    wrappedSchemas,\* createValueProcessor: how many wrappedSchema objects were created
    ajvCache,      \* ajv: the schema objects compiled so far, in order of compilation
    processors,    \* createValueProcessor: the value processors returned so far
    procCall,      \* the last call of a value processor: which one, with what value
    procResult,    \* how that call ended (return or throw)
    mArgs,         \* method metadata: args, the argument descriptors (may have holes)
    mParameters,   \* method metadata: operationFragment.parameters
    mArrayMerge,   \* how the metadata merge combines arrays: "concat" or "index"
    mCalls,        \* the setMethodParameterType calls made so far, in order
    mPrev,         \* the method metadata before the last operation
    mResult        \* the last operation and how it ended (return or throw)

pickVars == <<contentType, values, picked, pickPc>>
refVars == <<refSpec, refValue, refResult, ptrCalls, refPc>>
buildVars == <<bSpec, bMethod, bOpts, bResult, bCalls, bPc>>
procVars == <<wrappedSchemas, ajvCache, processors, procCall, procResult>>
metaVars == <<mArgs, mParameters, mArrayMerge, mCalls, mPrev, mResult>>

vars == <<pickVars, refVars, buildVars, procVars, metaVars>>

-----------------------------------------------------------------------------
(* Bounds *)

MaxTypeLen == 4
MaxEntries == 2
MaxRefLen == 5
MaxFactories == 2
MaxProcessors == 3
MaxCalls == 3
MaxIndex == 2

-----------------------------------------------------------------------------
(* JavaScript strings and values *)

\* All strings over the characters cs of length at most n.
Strings(cs, n) == UNION {[1..k -> cs] : k \in 0..n}

Null == [t |-> "null", s |-> <<>>]
Undefined == [t |-> "undefined", s |-> <<>>]
Str(s) == [t |-> "str", s |-> s]

\* A value of the record's type T: a number. 0 is falsy in JavaScript.
Num(n) == [t |-> "num", v |-> n]
None == [t |-> "null", v |-> 0]
Truthy(x) == x.t = "num" /\ x.v # 0

\* String.prototype.indexOf for a one-character needle: 0-based, -1 when absent.
IndexOf(s, c) ==
    IF \E i \in 1..Len(s) : s[i] = c
    THEN (CHOOSE i \in 1..Len(s) : s[i] = c /\ \A j \in 1..(i - 1) : s[j] # c) - 1
    ELSE -1

\* String.prototype.substring(from, to) with 0 <= from <= to <= length.
Substring(s, from, to) == SubSeq(s, from + 1, to)

\* String.prototype.split for a one-character separator: never empty,
\* "".split("/") is [""].
RECURSIVE Split(_, _)
Split(s, sep) ==
    LET i == IndexOf(s, sep) IN
    IF i = -1 THEN <<s>>
    ELSE <<Substring(s, 0, i)>> \o Split(Substring(s, i + 1, Len(s)), sep)

\* parts[i] of a JavaScript array of strings: undefined past the end.
At(parts, i) == IF i + 1 <= Len(parts) THEN Str(parts[i + 1]) ELSE Undefined

-----------------------------------------------------------------------------
(* pickContentType *)

Star == Str(<<"*">>)

\* A slip: the first entry of the record taken as the fallback, whatever its key.
LookupFirst(entries, key) == IF entries # <<>> THEN entries[1].value ELSE None

\* values[key] ?? null on the record's entries.
Lookup(entries, key) ==
    IF \E i \in 1..Len(entries) : entries[i].key = key
    THEN entries[CHOOSE i \in 1..Len(entries) : entries[i].key = key].value
    ELSE None

\* The for-of loop over Object.entries(values), from entry i on.
RECURSIVE PickLoop(_, _, _, _, _)
PickLoop(entries, contentTypeParts, i, chosen, wildcardsUsed) ==
    IF i > Len(entries) THEN chosen
    ELSE
      LET typeParts == Split(entries[i].key, "/")
          value == entries[i].value
          localWildcards == (IF At(typeParts, 0) = Star THEN 1 ELSE 0)
                            + (IF At(typeParts, 1) = Star THEN 1 ELSE 0)
      IN
      IF At(typeParts, 0) # Star /\ At(typeParts, 0) # At(contentTypeParts, 0)
      THEN PickLoop(entries, contentTypeParts, i + 1, chosen, wildcardsUsed)
      ELSE IF At(typeParts, 1) # Star /\ At(typeParts, 1) # At(contentTypeParts, 1)
      THEN PickLoop(entries, contentTypeParts, i + 1, chosen, wildcardsUsed)
      ELSE IF ~Truthy(chosen) \/ localWildcards < wildcardsUsed
      THEN IF localWildcards = 0 THEN value
           ELSE PickLoop(entries, contentTypeParts, i + 1, value, localWildcards)
      ELSE PickLoop(entries, contentTypeParts, i + 1, chosen, wildcardsUsed)

\* The content type after the first two ifs: "" becomes null, and a non-empty
\* string is cut at its first semicolon.
StripParameters(ct) ==
    LET c1 == IF ct.t = "str" /\ ct.s = <<>> THEN Null ELSE ct IN
    IF c1.t = "str" /\ IndexOf(c1.s, ";") # -1
    THEN Str(Substring(c1.s, 0, IndexOf(c1.s, ";")))
    ELSE c1

pickContentType(ct, entries) ==
    LET stripped == StripParameters(ct) IN
    IF stripped.t = "null" \/ stripped.s = <<>>
    THEN Lookup(entries, <<"*", "/", "*">>)
    ELSE PickLoop(entries, Split(stripped.s, "/"), 1, None, 0)

TypeChars == {"a", "b", "/", ";"}
ContentTypes == {Null} \cup {Str(s) : s \in Strings(TypeChars, MaxTypeLen)}

Halves == {<<"a">>, <<"*">>}
Patterns == {h1 \o <<"/">> \o h2 : h1 \in Halves, h2 \in Halves}
Values == {Num(0), Num(1), Num(2)}

\* The records: up to MaxEntries entries with distinct keys, in property order
\* (no pattern is an integer-like key, so the order is insertion order).
Records ==
    {es \in UNION {[1..k -> [key : Patterns, value : Values]] : k \in 0..MaxEntries} :
        \A i, j \in 1..Len(es) : i # j => es[i].key # es[j].key}

PickContentType ==
    /\ pickPc = "call"
    /\ picked' = pickContentType(contentType, values)
    /\ pickPc' = "done"
    /\ UNCHANGED <<contentType, values>>
    /\ UNCHANGED <<refVars, buildVars, procVars, metaVars>>

IdlePick ==
    /\ contentType = Null
    /\ values = <<>>
    /\ picked = None
    /\ pickPc = "idle"

-----------------------------------------------------------------------------
(* resolveReference *)

\* JSON values of the document: objects (their entries in key order), numbers
\* and null. A number has no own properties; null has no properties at all.
ObjNode(entries) == [t |-> "obj", entries |-> entries]
NumNode == [t |-> "num", entries |-> <<>>]
NullNode == [t |-> "null", entries |-> <<>>]

\* s.replace(/xy/g, z) for a two-character pattern xy and a one-character z.
RECURSIVE ReplaceAll(_, _, _, _)
ReplaceAll(s, x, y, z) ==
    IF Len(s) < 2 THEN s
    ELSE IF s[1] = x /\ s[2] = y
         THEN <<z>> \o ReplaceAll(SubSeq(s, 3, Len(s)), x, y, z)
         ELSE <<s[1]>> \o ReplaceAll(Tail(s), x, y, z)

\* A reference token unescaped: ~1 is /, then ~0 is ~.
Unescape(token) == ReplaceAll(ReplaceAll(token, "~", "1", "/"), "~", "0", "~")

\* Ptr.parse: the empty string has no tokens; any other pointer must start with
\* a slash, or the parse throws InvalidPtrError.
PtrParse(s) ==
    IF s = <<>> THEN [ok |-> TRUE, tokens |-> <<>>]
    ELSE IF s[1] # "/" THEN [ok |-> FALSE, tokens |-> <<>>]
    ELSE LET parts == Tail(Split(s, "/")) IN
         [ok |-> TRUE, tokens |-> [i \in 1..Len(parts) |-> Unescape(parts[i])]]

\* instance.hasOwnProperty(token) and instance[token] on a document node.
HasOwnProperty(instance, token) ==
    instance.t = "obj" /\ \E i \in 1..Len(instance.entries) : instance.entries[i].key = token
Property(instance, token) ==
    instance.entries[CHOOSE i \in 1..Len(instance.entries) : instance.entries[i].key = token].value

\* Ptr.eval: walk the tokens; a token that is no own property throws EvalError,
\* and asking null for hasOwnProperty throws TypeError.
RECURSIVE PtrEval(_, _)
PtrEval(tokens, instance) ==
    IF tokens = <<>> THEN [ok |-> TRUE, value |-> instance]
    ELSE IF HasOwnProperty(instance, Head(tokens))
         THEN PtrEval(Tail(tokens), Property(instance, Head(tokens)))
         ELSE [ok |-> FALSE, value |-> NullNode]

\* A slip: includes() in place of startsWith().
StartsWithAsIncludes(s, c) == \E i \in 1..Len(s) : s[i] = c

\* String.prototype.startsWith for a one-character prefix.
StartsWith(s, c) == Len(s) >= 1 /\ s[1] = c

Return(v, calls) == [kind |-> "return", value |-> v, error |-> "", calls |-> calls]
Throw(e, calls) == [kind |-> "throw", value |-> NullNode, error |-> e, calls |-> calls]

\* The try/catch around ptr.eval(spec).
EvalOrNull(ptr, doc) ==
    LET got == PtrEval(ptr.tokens, doc) IN
    IF got.ok THEN Return(got.value, <<"parse", "eval">>)
    ELSE Return(NullNode, <<"parse", "eval">>)

resolveReference(doc, value) ==
    IF value.isRef
    THEN IF ~StartsWith(value.ref, "#")
         THEN Throw("external reference", <<>>)
         ELSE LET ptr == PtrParse(Substring(value.ref, 1, Len(value.ref))) IN
              IF ~ptr.ok THEN Throw("InvalidPtrError", <<"parse">>)
              ELSE EvalOrNull(ptr, doc)
    ELSE Return(value.obj, <<>>)

RefChars == {"#", "/", "a", "~", "1"}
DocKeys == {<<"a">>, <<"/">>}

\* The objects whose keys are ks in order, each with a value of vs.
ObjectsOver(vs) ==
    {ObjNode(<<>>)}
    \cup {ObjNode(<<[key |-> k, value |-> v]>>) : k \in DocKeys, v \in vs}
    \cup {ObjNode(<<[key |-> <<"a">>, value |-> v], [key |-> <<"/">>, value |-> w]>>) :
             v \in vs, w \in vs}

\* The documents: objects one or two levels deep.
Docs == ObjectsOver({NumNode, NullNode} \cup ObjectsOver({NumNode}))

\* The value argument: a reference object { $ref }, or an object without $ref.
RefValues ==
    {[isRef |-> TRUE, ref |-> s, obj |-> NullNode] : s \in Strings(RefChars, MaxRefLen)}
    \cup {[isRef |-> FALSE, ref |-> <<>>, obj |-> o] : o \in ObjectsOver({NumNode})}

ResolveReference ==
    /\ refPc = "call"
    /\ LET r == resolveReference(refSpec, refValue) IN
         /\ refResult' = [kind |-> r.kind, value |-> r.value, error |-> r.error]
         /\ ptrCalls' = r.calls
    /\ refPc' = "done"
    /\ UNCHANGED <<refSpec, refValue>>
    /\ UNCHANGED <<pickVars, buildVars, procVars, metaVars>>

IdleRef ==
    /\ refSpec = ObjNode(<<>>)
    /\ refValue = [isRef |-> FALSE, ref |-> <<>>, obj |-> ObjNode(<<>>)]
    /\ refResult = [kind |-> "none", value |-> NullNode, error |-> ""]
    /\ ptrCalls = <<>>
    /\ refPc = "idle"

-----------------------------------------------------------------------------
(* createMethodHandlerFromSpec *)

\* JavaScript values by typeof, with an identity.
Val(t, id) == [t |-> t, id |-> id]
Undef == Val("undefined", "undefined")

\* String(value) for the values a message interpolates.
StringOf(v) == IF v.t = "symbol" THEN "Symbol(" \o v.id \o ")" ELSE v.id

\* lodash isObject and isFunction.
isObject(v) == v.t \in {"object", "function"}
isFunction(v) == v.t = "function"

\* An optional array: undefined or its items. OrEmpty is `list ?? []`.
NoList == [defined |-> FALSE, items |-> <<>>]
List(items) == [defined |-> TRUE, items |-> items]
OrEmpty(list) == IF list.defined THEN list.items ELSE <<>>

\* The controllers of the model and their properties: ctlA has the method foo,
\* a property bar that is not callable and nothing under the symbol key; ctlB
\* has all three as methods.
ControllerA == Val("object", "ctlA")
ControllerB == Val("object", "ctlB")
GetProperty(controller, key) ==
    IF controller = ControllerA
    THEN (IF key.id = "foo" THEN Val("function", "ctlA.foo")
          ELSE IF key.id = "bar" THEN Val("number", "7")
          ELSE Undef)
    ELSE IF controller = ControllerB
    THEN Val("function", "ctlB." \o key.id)
    ELSE Undef

OperationId == "op1"
Path == "/x"

\* The outcome of a call that may throw: a value, or an error message as the
\* pieces of its template literal.
Ok(v) == [ok |-> TRUE, value |-> v, message |-> <<>>]
Err(message) == [ok |-> FALSE, value |-> Undef, message |-> message]

\* A slip: a controller key accepted as if it were the controller.
defaultResolveControllerLenient(controller, method) == Ok(controller)

defaultResolveController(controller, method) ==
    IF ~isObject(controller)
    THEN Err(<<"Controller for operation ", OperationId, " handling \"", method, " ",
               Path, "\" is not an object (got ", StringOf(controller), ").">>)
    ELSE Ok(controller)

\* The first if of defaultResolveHandler: a key that names a function of the
\* controller is replaced by that function.
LookupMethod(controller, method) ==
    IF method.t \in {"string", "symbol"} /\ GetProperty(controller, method).t = "function"
    THEN GetProperty(controller, method)
    ELSE method

defaultResolveHandler(controller, method0) ==
    LET method == LookupMethod(controller, method0) IN
    IF ~isFunction(method)
    THEN Err(<<"Handler for operation \"", OperationId, "\" handling \"", StringOf(method),
               " ", Path, "\" is not a function (got ", StringOf(method), ").">>)
    ELSE Ok(method)

\* The resolver overrides a caller may pass in opts: none, one that answers
\* every reference with its own object (function), or one that throws.
OverrideController(kind, controller) ==
    IF kind = "throws" THEN Err(<<"resolveController override failed">>)
    ELSE Ok(ControllerB)
OverrideHandler(kind, controller, method) ==
    IF kind = "throws" THEN Err(<<"resolveHandler override failed">>)
    ELSE Ok(Val("function", "resolved"))

\* A different design: an override consulted only for keys, a concrete object
\* used as it is.
CallResolveControllerKeysOnly(opts, controller, method) ==
    IF opts.resolveController = "none" \/ controller.t = "object"
    THEN defaultResolveController(controller, method)
    ELSE OverrideController(opts.resolveController, controller)

\* let { resolveController, resolveHandler } = opts, with the defaults filled in.
CallResolveController(opts, controller, method) ==
    IF opts.resolveController = "none" THEN defaultResolveController(controller, method)
    ELSE OverrideController(opts.resolveController, controller)
CallResolveHandler(opts, controller, handler) ==
    IF opts.resolveHandler = "none" THEN defaultResolveHandler(controller, handler)
    ELSE OverrideHandler(opts.resolveHandler, controller, handler)

\* The structural validation of the extension: controller is an object, string
\* or symbol and handler is a function, string or symbol.
validateSOCControllerMethodExtensionData(ext) ==
    /\ ext.controller.t \in {"object", "string", "symbol"}
    /\ ext.handler.t \in {"function", "string", "symbol"}

\* What factory i returns: a processor, null or undefined.
FactoryOutput(kind, i) ==
    IF kind = "processor" THEN [t |-> "processor", id |-> i]
    ELSE [t |-> kind, id |-> 0]
\* A slip: only null taken as a factory declining.
isNotNull(v) == v.t # "null"

isNotNullOrUndefined(v) == v.t \notin {"null", "undefined"}

\* Array.prototype.filter(isNotNullOrUndefined)
RECURSIVE FilterDefined(_)
FilterDefined(outputs) ==
    IF outputs = <<>> THEN <<>>
    ELSE IF isNotNullOrUndefined(Head(outputs))
         THEN <<Head(outputs)>> \o FilterDefined(Tail(outputs))
         ELSE FilterDefined(Tail(outputs))

\* A slip: the operation's own middleware put in front of the defaults.
ConcatDeclaredFirst(defaults, declared) == OrEmpty(declared) \o OrEmpty(defaults)

\* [...(opts.list ?? []), ...(extensionData.list ?? [])]
Concat(defaults, declared) == OrEmpty(defaults) \o OrEmpty(declared)

Call(fn, index, controller, handler) ==
    [fn |-> fn, index |-> index, controller |-> controller, handler |-> handler]

NoHandler ==
    [controller |-> Undef, handler |-> Undef, handlerArgs |-> <<>>, processors |-> <<>>,
     handlerMiddleware |-> <<>>, preExpressMiddleware |-> <<>>,
     postExpressMiddleware |-> <<>>]

\* new MethodHandler(...): the binding holds what it is constructed with.
NewMethodHandler(controller, handler, handlerArgs, requestProcessors, handlerMiddleware, preExpressMiddleware, postExpressMiddleware) ==
    [controller |-> controller, handler |-> handler, handlerArgs |-> handlerArgs,
     processors |-> requestProcessors, handlerMiddleware |-> handlerMiddleware,
     preExpressMiddleware |-> preExpressMiddleware,
     postExpressMiddleware |-> postExpressMiddleware]

Built(h, calls) == [kind |-> "return", handler |-> h, message |-> <<>>, calls |-> calls]
Failed(message, calls) ==
    [kind |-> "throw", handler |-> NoHandler, message |-> message, calls |-> calls]

\* Lines 115 to 183: the factories are mapped in order, then the lists are
\* concatenated and the MethodHandler is constructed.
Assemble(ext, opts, controller, handler, calls) ==
    LET factories == OrEmpty(opts.requestDataProcessorFactories)
        outputs == [i \in 1..Len(factories) |-> FactoryOutput(factories[i], i)]
        factoryCalls == [i \in 1..Len(factories) |-> Call("factory", i, controller, handler)]
    IN Built(NewMethodHandler(controller,
                              handler,
                              OrEmpty(ext.handlerArgs),
                              FilterDefined(outputs),
                              Concat(opts.handlerMiddleware, ext.handlerMiddleware),
                              Concat(opts.preExpressMiddleware, ext.preExpressMiddleware),
                              OrEmpty(opts.postExpressMiddleware)),
             calls \o factoryCalls)

\* Lines 94 to 113: the resolvers, the controller first.
Resolve(ext, method, opts) ==
    LET c == CallResolveController(opts, ext.controller, method)
        c1 == <<Call("resolveController", 0, ext.controller, Undef)>>
    IN
    IF ~c.ok THEN Failed(c.message, c1)
    ELSE LET h == CallResolveHandler(opts, c.value, ext.handler)
             c2 == c1 \o <<Call("resolveHandler", 0, c.value, ext.handler)>>
         IN
         IF ~h.ok THEN Failed(h.message, c2)
         ELSE Assemble(ext, opts, c.value, h.value, c2)

\* A slip: the extension is read but its structural validation is left out.
createMethodHandlerFromSpecUnvalidated(spec, method, opts) ==
    IF ~spec.hasPaths \/ ~spec.hasPathItem
    THEN Failed(<<"Path ", Path, " not found in spec.">>, <<>>)
    ELSE IF method \notin spec.operations
    THEN Failed(<<"Operation ", method, " not found on path ", Path, ".">>, <<>>)
    ELSE IF ~spec.hasExtension
    THEN Failed(<<"Operation ", OperationId, " is missing the ",
                  "SOCControllerMethodExtensionName", " extension.">>, <<>>)
    ELSE Resolve(spec.extension, method, opts)

\* spec.paths is undefined or an object; a path item and an operation are
\* undefined when absent, and so is the operation's extension.
createMethodHandlerFromSpec(spec, method, opts) ==
    IF ~spec.hasPaths \/ ~spec.hasPathItem
    THEN Failed(<<"Path ", Path, " not found in spec.">>, <<>>)
    ELSE IF method \notin spec.operations
    THEN Failed(<<"Operation ", method, " not found on path ", Path, ".">>, <<>>)
    ELSE IF ~spec.hasExtension
    THEN Failed(<<"Operation ", OperationId, " is missing the ",
                  "SOCControllerMethodExtensionName", " extension.">>, <<>>)
    ELSE IF ~validateSOCControllerMethodExtensionData(spec.extension)
    THEN Failed(<<"Operation ", OperationId, " has an invalid ",
                  "SOCControllerMethodExtensionName", " extension: ", "errorsText", "}">>, <<>>)
    ELSE Resolve(spec.extension, method, opts)

\* The inputs of the model.
Methods == {"get", "post"}
ControllerRefs == {ControllerA, Val("string", "ctl"), Val("symbol", "ctl"), Val("number", "42")}
HandlerRefs == {Val("function", "F"), Val("string", "foo"), Val("string", "bar"),
                Val("symbol", "sym"), Val("number", "42")}
\* The handlerArgs of the extension: absent, or one parameter-bound descriptor.
HandlerArgLists ==
    {NoList, List(<<[type |-> "openapi-parameter", parameterName |-> "id"]>>)}
\* How many parameters each handler function of the model declares.
ParameterCount(handler) ==
    IF handler.id = "resolved" THEN 0
    ELSE IF handler.id = "ctlA.foo" THEN 1
    ELSE 2
MiddlewareLists == {NoList, List(<<"m1">>), List(<<"m2", "m1">>)}
FactoryKinds == {"processor", "null", "undefined"}
FactoryLists ==
    {NoList} \cup {List(fs) : fs \in UNION {[1..k -> FactoryKinds] : k \in 0..MaxFactories}}
Overrides == {"none", "fixed", "throws"}

Extensions ==
    [controller : ControllerRefs, handler : HandlerRefs, handlerArgs : HandlerArgLists,
     handlerMiddleware : MiddlewareLists, preExpressMiddleware : MiddlewareLists]
NoExtension ==
    [controller : {Undef}, handler : {Undef}, handlerArgs : {NoList},
     handlerMiddleware : {NoList}, preExpressMiddleware : {NoList}]

\* The spec documents: no paths at all, paths without the path, a path item
\* with or without the get operation, and an operation with or without the
\* extension.
Specs ==
    [hasPaths : {FALSE}, hasPathItem : {FALSE}, operations : {{}}, hasExtension : {FALSE},
     extension : NoExtension]
    \cup [hasPaths : {TRUE}, hasPathItem : {FALSE}, operations : {{}}, hasExtension : {FALSE},
          extension : NoExtension]
    \cup [hasPaths : {TRUE}, hasPathItem : {TRUE}, operations : {{}, {"get"}},
          hasExtension : {FALSE}, extension : NoExtension]
    \cup [hasPaths : {TRUE}, hasPathItem : {TRUE}, operations : {{"get"}},
          hasExtension : {TRUE}, extension : Extensions]

Options ==
    [resolveController : Overrides, resolveHandler : Overrides,
     requestDataProcessorFactories : FactoryLists,
     handlerMiddleware : MiddlewareLists, preExpressMiddleware : MiddlewareLists,
     postExpressMiddleware : MiddlewareLists]

NoResult == [kind |-> "none", handler |-> NoHandler, message |-> <<>>]

CreateMethodHandlerFromSpec ==
    /\ bPc = "call"
    /\ LET r == createMethodHandlerFromSpec(bSpec, bMethod, bOpts) IN
         /\ bResult' = [kind |-> r.kind, handler |-> r.handler, message |-> r.message]
         /\ bCalls' = r.calls
    /\ bPc' = "done"
    /\ UNCHANGED <<bSpec, bMethod, bOpts>>
    /\ UNCHANGED <<pickVars, refVars, procVars, metaVars>>

IdleBuild ==
    /\ bSpec = [hasPaths |-> FALSE, hasPathItem |-> FALSE, operations |-> {},
                hasExtension |-> FALSE,
                extension |-> [controller |-> Undef, handler |-> Undef, handlerArgs |-> NoList,
                               handlerMiddleware |-> NoList, preExpressMiddleware |-> NoList]]
    /\ bMethod = "get"
    /\ bOpts = [resolveController |-> "none", resolveHandler |-> "none",
                requestDataProcessorFactories |-> NoList, handlerMiddleware |-> NoList,
                preExpressMiddleware |-> NoList, postExpressMiddleware |-> NoList]
    /\ bResult = NoResult
    /\ bCalls = <<>>
    /\ bPc = "idle"

-----------------------------------------------------------------------------
(* createValueProcessor *)

\* ajv's type coercion of a single value against { type }: the coerced value,
\* or undefined when the value neither has the type nor can be coerced to it.
Coerce(type, value) ==
    IF value.t = type THEN value
    ELSE IF type = "number" /\ value.t = "string" /\ value.id = "42" THEN Val("number", "42")
    ELSE IF type = "boolean" /\ value.t = "string" /\ value.id = "true"
         THEN Val("boolean", "true")
    ELSE IF type = "string" /\ value.t \in {"number", "boolean"} THEN Val("string", value.id)
    ELSE Undef

\* The validator ajv compiles from { type: "object", properties: { value: schema } },
\* applied to a wrapper: an undefined property passes (value is not required), a
\* value of the type or coercible to it passes and is replaced in the wrapper,
\* anything else is reported at /value.
AjvValidate(wrappedSchema, wrapper) ==
    IF wrapper.value = Undef
    THEN [valid |-> TRUE, wrapper |-> wrapper, errors |-> <<>>]
    ELSE IF Coerce(wrappedSchema.value.type, wrapper.value) # Undef
    THEN [valid |-> TRUE,
          wrapper |-> [value |-> Coerce(wrappedSchema.value.type, wrapper.value)],
          errors |-> <<>>]
    ELSE [valid |-> FALSE, wrapper |-> wrapper,
          errors |-> <<[instancePath |-> "/value", keyword |-> "type",
                        type |-> wrappedSchema.value.type]>>]

\* ajv.compile: ajv keeps the compiled validator of a schema object under that
\* object, so only an object it has not seen is compiled. The result is the
\* cache and the position of the validator in it.
AjvCompile(cache, schemaObject) ==
    IF \E k \in 1..Len(cache) : cache[k].object = schemaObject.object
    THEN [cache |-> cache,
          validate |-> CHOOSE k \in 1..Len(cache) : cache[k].object = schemaObject.object]
    ELSE [cache |-> Append(cache, schemaObject), validate |-> Len(cache) + 1]

Returned(v) == [kind |-> "return", value |-> v, errors |-> <<>>]
Thrown(errors) == [kind |-> "throw", value |-> Undef, errors |-> errors]

\* A slip: the wrapper's value returned whatever the validator said.
ValueProcessorUnchecked(wrappedSchema, value) ==
    Returned(AjvValidate(wrappedSchema, [value |-> value]).wrapper.value)

\* The function createValueProcessor returns (lines 125 to 134), for the
\* validator compiled from wrappedSchema.
ValueProcessor(wrappedSchema, value) ==
    LET validated == AjvValidate(wrappedSchema, [value |-> value]) IN
    IF ~validated.valid THEN Thrown(validated.errors)
    ELSE Returned(validated.wrapper.value)

\* The schema fragments (objects with an identity) and the candidate values.
Schemas == {[id |-> "s1", type |-> "number"], [id |-> "s2", type |-> "boolean"],
            [id |-> "s3", type |-> "string"]}
Candidates == {Val("number", "42"), Val("string", "42"), Val("string", "abc"),
               Val("string", "true"), Val("boolean", "true"), Undef}

NoCall == [processor |-> 0, value |-> Undef]
NoProcResult == [kind |-> "none", value |-> Undef, errors |-> <<>>]

\* createValueProcessor(schema): a new wrappedSchema object is built around the
\* schema and compiled, and the processor closes over the validator.
CreateValueProcessor(schema) ==
    /\ Len(processors) < MaxProcessors
    /\ LET wrappedSchema == [object |-> wrappedSchemas + 1, value |-> schema]
           compiled == AjvCompile(ajvCache, wrappedSchema)
       IN /\ wrappedSchemas' = wrappedSchemas + 1
          /\ ajvCache' = compiled.cache
          /\ processors' = Append(processors, [schema |-> schema, validate |-> compiled.validate])
    /\ UNCHANGED <<procCall, procResult>>
    /\ UNCHANGED <<pickVars, refVars, buildVars, metaVars>>

\* A call of the i-th processor with a candidate value.
Process(i, value) ==
    /\ i \in 1..Len(processors)
    /\ procCall' = [processor |-> i, value |-> value]
    /\ procResult' = ValueProcessor(ajvCache[processors[i].validate], value)
    /\ UNCHANGED <<wrappedSchemas, ajvCache, processors>>
    /\ UNCHANGED <<pickVars, refVars, buildVars, metaVars>>

IdleProc ==
    /\ wrappedSchemas = 0
    /\ ajvCache = <<>>
    /\ processors = <<>>
    /\ procCall = NoCall
    /\ procResult = NoProcResult

-----------------------------------------------------------------------------
(* createParameterDecorator and setMethodParameterType *)

\* An argument descriptor, and what an index without one reads as (undefined,
\* whose ?.type is undefined).
Descriptor(type, parameterName) == [type |-> type, parameterName |-> parameterName]
Hole == Descriptor("", "")

\* args[i] and args[i] = v on a JavaScript array: reading past the end gives
\* undefined, writing past the end leaves holes in between.
ArrayGet(array, i) == IF i + 1 <= Len(array) THEN array[i + 1] ELSE Hole
ArraySet(array, i, v) ==
    [k \in 1..(IF Len(array) > i + 1 THEN Len(array) ELSE i + 1) |->
        IF k = i + 1 THEN v ELSE ArrayGet(array, k - 1)]

Metadata(args, parameters) == [args |-> args, parameters |-> parameters]
Updated(metadata) == [ok |-> TRUE, metadata |-> metadata, error |-> ""]
Refused(metadata, error) == [ok |-> FALSE, metadata |-> metadata, error |-> error]

\* A slip: the descriptor written without looking at what the index holds.
ParameterTypeUpdaterOverwriting(previous, parameterIndex, arg) ==
    Updated(Metadata(List(ArraySet(OrEmpty(previous.args), parameterIndex, arg)),
                     previous.parameters))

\* The updater setMethodParameterType hands to the merge (lines 51 to 66).
ParameterTypeUpdater(previous, parameterIndex, arg) ==
    LET args == OrEmpty(previous.args) IN
    IF ArrayGet(args, parameterIndex).type # ""
    THEN Refused(previous, "cannot redefine the parameter type")
    ELSE Updated(Metadata(List(ArraySet(args, parameterIndex, arg)), previous.parameters))

\* mergeSOCControllerMethodMetadata with an updater: the metadata becomes what
\* the updater returns; an updater that throws has returned nothing to store.
MergeWithUpdater(previous, updated) == IF updated.ok THEN updated.metadata ELSE previous

\* mergeSOCControllerMethodMetadata with a fragment of one parameter: arrays are
\* either concatenated or merged index by index.
MergeFragment(previous, parameter, arrayMerge) ==
    Metadata(previous.args,
             IF arrayMerge = "concat" THEN Append(previous.parameters, parameter)
             ELSE ArraySet(previous.parameters, 0, parameter))

setMethodParameterType(previous, parameterIndex, arg) ==
    LET updated == ParameterTypeUpdater(previous, parameterIndex, arg) IN
    [ok |-> updated.ok, metadata |-> MergeWithUpdater(previous, updated),
     error |-> updated.error]

\* The decorator createParameterDecorator returns, applied to a parameter.
ParameterDecorator(previous, name, hasPropertyKey, parameterIndex, arrayMerge) ==
    IF ~hasPropertyKey
    THEN Refused(previous, "@QueryParam() must be applied to a method.")
    ELSE setMethodParameterType(
             MergeFragment(previous, [in |-> "query", name |-> name], arrayMerge),
             parameterIndex, Descriptor("openapi-parameter", name))

ParameterNames == {"id", "q"}
Descriptors == {Descriptor("openapi-parameter", "id"), Descriptor("request-body", ""),
                Descriptor("request-raw", "")}
Indexes == 0..MaxIndex

Current == Metadata(mArgs, mParameters)
Outcome(op, r) == [op |-> op, kind |-> IF r.ok THEN "return" ELSE "throw", error |-> r.error]
Logged(parameterIndex, arg, r) == [index |-> parameterIndex, arg |-> arg, threw |-> ~r.ok]

\* A direct call, as the body and raw-request decorators make it.
SetMethodParameterType(parameterIndex, arg) ==
    /\ Len(mCalls) < MaxCalls
    /\ LET r == setMethodParameterType(Current, parameterIndex, arg) IN
         /\ mArgs' = r.metadata.args
         /\ mParameters' = r.metadata.parameters
         /\ mCalls' = Append(mCalls, Logged(parameterIndex, arg, r))
         /\ mResult' = Outcome("setMethodParameterType", r)
    /\ mPrev' = Current
    /\ UNCHANGED mArrayMerge
    /\ UNCHANGED <<pickVars, refVars, buildVars, procVars>>

\* A parameter decorator applied to a parameter of the method.
ApplyParameterDecorator(name, parameterIndex) ==
    /\ Len(mCalls) < MaxCalls
    /\ LET r == ParameterDecorator(Current, name, TRUE, parameterIndex, mArrayMerge) IN
         /\ mArgs' = r.metadata.args
         /\ mParameters' = r.metadata.parameters
         /\ mCalls' = Append(mCalls,
                             Logged(parameterIndex, Descriptor("openapi-parameter", name), r))
         /\ mResult' = Outcome("decorator", r)
    /\ mPrev' = Current
    /\ UNCHANGED mArrayMerge
    /\ UNCHANGED <<pickVars, refVars, buildVars, procVars>>

\* A parameter decorator applied where there is no method key (a constructor
\* parameter).
ApplyParameterDecoratorWithoutKey(name, parameterIndex) ==
    /\ LET r == ParameterDecorator(Current, name, FALSE, parameterIndex, mArrayMerge) IN
         /\ mArgs' = r.metadata.args
         /\ mParameters' = r.metadata.parameters
         /\ mResult' = Outcome("decorator", r)
    /\ mPrev' = Current
    /\ UNCHANGED <<mArrayMerge, mCalls>>
    /\ UNCHANGED <<pickVars, refVars, buildVars, procVars>>

NoOutcome == [op |-> "none", kind |-> "none", error |-> ""]

IdleMeta ==
    /\ mArgs = NoList
    /\ mParameters = <<>>
    /\ mArrayMerge = "concat"
    /\ mCalls = <<>>
    /\ mPrev = Metadata(NoList, <<>>)
    /\ mResult = NoOutcome

-----------------------------------------------------------------------------
(* Specifications: one per component, the others idle *)

InitPick ==
    /\ contentType \in ContentTypes
    /\ values \in Records
    /\ picked = None
    /\ pickPc = "call"
    /\ IdleRef
    /\ IdleBuild
    /\ IdleProc
    /\ IdleMeta

NextPick == PickContentType

SpecPick == InitPick /\ [][NextPick]_vars

InitRef ==
    /\ refSpec \in Docs
    /\ refValue \in RefValues
    /\ refResult = [kind |-> "none", value |-> NullNode, error |-> ""]
    /\ ptrCalls = <<>>
    /\ refPc = "call"
    /\ IdlePick
    /\ IdleBuild
    /\ IdleProc
    /\ IdleMeta

NextRef == ResolveReference

SpecRef == InitRef /\ [][NextRef]_vars

InitBuild ==
    /\ bSpec \in Specs
    /\ bMethod \in Methods
    /\ bOpts \in Options
    /\ bResult = NoResult
    /\ bCalls = <<>>
    /\ bPc = "call"
    /\ IdlePick
    /\ IdleRef
    /\ IdleProc
    /\ IdleMeta

NextBuild == CreateMethodHandlerFromSpec

SpecBuild == InitBuild /\ [][NextBuild]_vars

InitProc == IdleProc /\ IdlePick /\ IdleRef /\ IdleBuild /\ IdleMeta

NextProc ==
    \/ \E schema \in Schemas : CreateValueProcessor(schema)
    \/ \E i \in 1..MaxProcessors, value \in Candidates : Process(i, value)

SpecProc == InitProc /\ [][NextProc]_vars

InitMeta ==
    /\ mArgs = NoList
    /\ mParameters = <<>>
    /\ mArrayMerge \in {"concat", "index"}
    /\ mCalls = <<>>
    /\ mPrev = Metadata(NoList, <<>>)
    /\ mResult = NoOutcome
    /\ IdlePick /\ IdleRef /\ IdleBuild /\ IdleProc

NextMeta ==
    \/ \E i \in Indexes, arg \in Descriptors : SetMethodParameterType(i, arg)
    \/ \E name \in ParameterNames, i \in Indexes : ApplyParameterDecorator(name, i)
    \/ \E name \in ParameterNames, i \in Indexes : ApplyParameterDecoratorWithoutKey(name, i)

SpecMeta == InitMeta /\ [][NextMeta]_vars

-----------------------------------------------------------------------------
(* Claims about pickContentType *)

\* The observed content type with its parameters cut off, as the claims read it.
Observed == IF contentType.t = "str"
            THEN (IF IndexOf(contentType.s, ";") = -1 THEN contentType.s
                  ELSE Substring(contentType.s, 0, IndexOf(contentType.s, ";")))
            ELSE <<>>

\* A candidate pattern matches when each of its halves is * or the observed half.
HalfMatches(pattern, observed, h) ==
    At(Split(pattern, "/"), h) = Star \/ At(Split(pattern, "/"), h) = At(Split(observed, "/"), h)
Matches(pattern, observed) ==
    HalfMatches(pattern, observed, 0) /\ HalfMatches(pattern, observed, 1)
Wildcards(pattern) ==
    Cardinality({h \in {0, 1} : At(Split(pattern, "/"), h) = Star})
Matching == {i \in 1..Len(values) : Matches(values[i].key, Observed)}

\* C1: for a content type that is non-empty once its parameters are stripped,
\* whatever the mapped values are, the call returns the value of a matching
\* candidate with the fewest wildcard halves among the matching candidates,
\* returns none only when no candidate matches, and the parameters do not
\* change the result.
C1_FewestWildcards ==
    (pickPc = "done" /\ Observed # <<>>) =>
        /\ (Matching = {} => picked = None)
        /\ (Matching # {} =>
              \E i \in Matching :
                  /\ picked = values[i].value
                  /\ \A j \in Matching : Wildcards(values[i].key) <= Wildcards(values[j].key))
        /\ picked = pickContentType(Str(Observed), values)

\* The same statement restricted to records whose values are all truthy.
C1_TruthyOnly ==
    (\A i \in 1..Len(values) : Truthy(values[i].value)) => C1_FewestWildcards


\* The entries registered under the fully-wildcard pattern.
FullWildcard == {i \in 1..Len(values) : values[i].key = <<"*", "/", "*">>}

\* C11: when the observed content type is null, empty or has nothing before
\* its first semicolon, the call returns the value registered under */* if
\* there is one and none otherwise; no other pattern is selected.
C11_EmptySelectsOnlyFullWildcard ==
    (pickPc = "done" /\ Observed = <<>>) =>
        /\ FullWildcard = {} => picked = None
        /\ \A i \in FullWildcard : picked = values[i].value

\* A content type of parameters only, with text-like patterns registered before
\* the full wildcard.
C11_Witness ==
    /\ pickPc = "done"
    /\ contentType = Str(<<";", "a">>)
    /\ Len(values) = 2
    /\ values[1].key = <<"a", "/", "*">>
    /\ values[2].key = <<"*", "/", "*">>
    /\ values[1].value # values[2].value
    /\ picked = values[2].value

-----------------------------------------------------------------------------
(* Claims about resolveReference *)

\* The JSON pointer of an internal reference: what follows the #.
PointerOf(value) == Substring(value.ref, 1, Len(value.ref))
BeginsWithHash(ref) == ref # <<>> /\ Head(ref) = "#"
InternalRef == refValue.isRef /\ BeginsWithHash(refValue.ref)
\* The pointer resolves inside the document: it parses and every token is found.
ResolvesInside ==
    /\ PtrParse(PointerOf(refValue)).ok
    /\ PtrEval(PtrParse(PointerOf(refValue)).tokens, refSpec).ok
TargetOf == PtrEval(PtrParse(PointerOf(refValue)).tokens, refSpec).value

\* C9: for every reference object whose $ref starts with #, the call never
\* throws: it returns the target when the pointer resolves inside the document
\* and null whenever it does not.
C9_InternalNeverThrows ==
    (refPc = "done" /\ InternalRef) =>
        /\ refResult.kind = "return"
        /\ (ResolvesInside => refResult.value = TargetOf)
        /\ (~ResolvesInside => refResult.value = NullNode)

\* The same statement for the pointers that are well formed (empty, or starting
\* with a slash): these never throw.
C9_WellFormedNeverThrows ==
    (PointerOf(refValue) = <<>> \/ Head(PointerOf(refValue)) = "/") => C9_InternalNeverThrows

\* C10: a reference object whose $ref does not start with # throws the
\* external-reference error and no pointer is evaluated against the document;
\* a value that is not a reference object is returned unchanged.
C10_ExternalThrowsOthersUnchanged ==
    refPc = "done" =>
        /\ (refValue.isRef /\ ~BeginsWithHash(refValue.ref)) =>
              /\ refResult.kind = "throw"
              /\ refResult.error = "external reference"
              /\ ptrCalls = <<>>
        /\ ~refValue.isRef =>
              /\ refResult.kind = "return"
              /\ refResult.value = refValue.obj

\* An external reference with a fragment (such as other#/a) has thrown.
C10_Witness ==
    /\ refPc = "done"
    /\ refValue.isRef
    /\ refValue.ref = <<"a", "#", "/", "a">>
    /\ HasOwnProperty(refSpec, <<"a">>)
    /\ refResult.kind = "throw"


-----------------------------------------------------------------------------
(* Claims about createMethodHandlerFromSpec *)

Ext == bSpec.extension
Declared(list) == IF list.defined THEN list.items ELSE <<>>
Mentions(message, x) == \E i \in 1..Len(message) : message[i] = x

PathAbsent == ~bSpec.hasPaths \/ ~bSpec.hasPathItem
OperationAbsent == bMethod \notin bSpec.operations
ExtensionAbsent == ~bSpec.hasExtension
ExtensionInvalid ==
    bSpec.hasExtension /\ ~validateSOCControllerMethodExtensionData(Ext)
\* The build gets as far as the resolvers.
ReachesResolvers ==
    ~PathAbsent /\ ~OperationAbsent /\ ~ExtensionAbsent /\ ~ExtensionInvalid
IsKey(ref) == ref.t \in {"string", "symbol"}

\* C4: in every successful build the handler-wrapping list is the default list
\* followed by the extension's list, the pre-dispatch list is the default list
\* followed by the extension's list, each in its own order, and the
\* post-dispatch list is the default list alone.
C4_MiddlewareDefaultsFirst ==
    (bPc = "done" /\ bResult.kind = "return") =>
        /\ bResult.handler.handlerMiddleware =
               Declared(bOpts.handlerMiddleware) \o Declared(Ext.handlerMiddleware)
        /\ bResult.handler.preExpressMiddleware =
               Declared(bOpts.preExpressMiddleware) \o Declared(Ext.preExpressMiddleware)
        /\ bResult.handler.postExpressMiddleware = Declared(bOpts.postExpressMiddleware)

\* A build with two defaults and one extension middleware wrapping the handler,
\* and other lists for the pre- and post-dispatch stages.
C4_Witness ==
    /\ bPc = "done"
    /\ bResult.kind = "return"
    /\ bOpts.handlerMiddleware = List(<<"m2", "m1">>)
    /\ Ext.handlerMiddleware = List(<<"m1">>)
    /\ bOpts.preExpressMiddleware = List(<<"m1">>)
    /\ Ext.preExpressMiddleware = List(<<"m2", "m1">>)
    /\ bOpts.postExpressMiddleware = List(<<"m2", "m1">>)
    /\ bResult.handler.handlerMiddleware = <<"m2", "m1", "m1">>

\* C5: when the path, the operation or the extension is absent, or the
\* extension fails its structural validation, the build throws, produces no
\* MethodHandler and has called no resolver and no factory.
C5_ConfigurationErrorsBeforeResolvers ==
    (bPc = "done" /\ (PathAbsent \/ OperationAbsent \/ ExtensionAbsent \/ ExtensionInvalid)) =>
        /\ bResult.kind = "throw"
        /\ bResult.handler = NoHandler
        /\ bCalls = <<>>

\* An invalid extension met with overrides and factories that would have
\* accepted it.
C5_Witness ==
    /\ bPc = "done"
    /\ ~PathAbsent /\ ~OperationAbsent /\ ExtensionInvalid
    /\ bOpts.resolveController = "fixed"
    /\ bOpts.resolveHandler = "fixed"
    /\ bOpts.requestDataProcessorFactories = List(<<"processor", "processor">>)
    /\ bResult.kind = "throw"

\* C6 as stated: with or without overrides, a concrete controller object and a
\* concrete handler function are the MethodHandler's controller and handler as
\* they are.
C6_ConcreteUsedAsIs ==
    (bPc = "done" /\ bResult.kind = "return") =>
        /\ Ext.controller.t = "object" => bResult.handler.controller = Ext.controller
        /\ Ext.handler.t = "function" => bResult.handler.handler = Ext.handler

\* C6 amended: without an override a concrete controller object (handler
\* function) is used as it is; a supplied override is called with every
\* reference, concrete or key, and what it returns is used.
C6_ConcreteUsedAsIsWithoutOverride ==
    (bPc = "done" /\ bResult.kind = "return") =>
        /\ (bOpts.resolveController = "none" /\ Ext.controller.t = "object")
              => bResult.handler.controller = Ext.controller
        /\ (bOpts.resolveHandler = "none" /\ Ext.handler.t = "function")
              => bResult.handler.handler = Ext.handler
        /\ bOpts.resolveController # "none"
              => bResult.handler.controller = ControllerB
        /\ bOpts.resolveHandler # "none"
              => bResult.handler.handler = Val("function", "resolved")
        /\ bCalls[1] = Call("resolveController", 0, Ext.controller, Undef)
        /\ bCalls[2] = Call("resolveHandler", 0, bResult.handler.controller, Ext.handler)

\* A concrete controller and a concrete handler, both replaced by overrides.
C6_Witness ==
    /\ bPc = "done"
    /\ bResult.kind = "return"
    /\ Ext.controller = ControllerA
    /\ Ext.handler = Val("function", "F")
    /\ bOpts.resolveController = "fixed"
    /\ bOpts.resolveHandler = "fixed"
    /\ bResult.handler.controller = ControllerB

\* C7: when the controller of the (present, structurally valid) binding
\* metadata is a string or symbol key and no resolveController override is
\* given, the build throws an error that mentions the operation id, the HTTP
\* method and the path, and produces no MethodHandler.
C7_ControllerKeyWithoutResolver ==
    (bPc = "done" /\ ReachesResolvers /\ IsKey(Ext.controller)
        /\ bOpts.resolveController = "none") =>
        /\ bResult.kind = "throw"
        /\ bResult.handler = NoHandler
        /\ Mentions(bResult.message, OperationId)
        /\ Mentions(bResult.message, bMethod)
        /\ Mentions(bResult.message, Path)

\* A symbol controller key without a controller resolver, although the handler
\* resolver override and the factories would have gone through.
C7_Witness ==
    /\ bPc = "done"
    /\ ReachesResolvers
    /\ Ext.controller = Val("symbol", "ctl")
    /\ bMethod = "get"
    /\ bOpts.resolveController = "none"
    /\ bOpts.resolveHandler = "fixed"
    /\ bResult.kind = "throw"
    /\ Mentions(bResult.message, "Symbol(ctl)")

\* The controller the handler is looked up on, when there is one.
ControllerResolved ==
    ReachesResolvers /\ (bOpts.resolveController = "fixed"
                         \/ (bOpts.resolveController = "none" /\ Ext.controller.t = "object"))
ResolvedController ==
    IF bOpts.resolveController = "fixed" THEN ControllerB ELSE Ext.controller
KeyIsCallable == GetProperty(ResolvedController, Ext.handler).t = "function"

\* C8: without a resolveHandler override a string or symbol handler key is
\* resolved to the property of that name on the resolved controller when it is
\* callable; otherwise the build throws an error naming the operation id, the
\* HTTP method, the path and the key, and produces no MethodHandler.
C8_HandlerKeyLookup ==
    (bPc = "done" /\ ControllerResolved /\ IsKey(Ext.handler)
        /\ bOpts.resolveHandler = "none") =>
        /\ KeyIsCallable =>
              /\ bResult.kind = "return"
              /\ bResult.handler.handler = GetProperty(ResolvedController, Ext.handler)
        /\ ~KeyIsCallable =>
              /\ bResult.kind = "throw"
              /\ bResult.handler = NoHandler
              /\ Mentions(bResult.message, OperationId)
              /\ Mentions(bResult.message, bMethod)
              /\ Mentions(bResult.message, Path)
              /\ Mentions(bResult.message, StringOf(Ext.handler))

\* The same statement without the HTTP method in the message.
C8_HandlerKeyLookupNoMethod ==
    (bPc = "done" /\ ControllerResolved /\ IsKey(Ext.handler)
        /\ bOpts.resolveHandler = "none") =>
        /\ KeyIsCallable =>
              /\ bResult.kind = "return"
              /\ bResult.handler.handler = GetProperty(ResolvedController, Ext.handler)
        /\ ~KeyIsCallable =>
              /\ bResult.kind = "throw"
              /\ bResult.handler = NoHandler
              /\ Mentions(bResult.message, OperationId)
              /\ Mentions(bResult.message, Path)
              /\ Mentions(bResult.message, StringOf(Ext.handler))


\* C13: a MethodHandler is produced only when the descriptor list has exactly
\* one descriptor per parameter of the handler function; any other build fails.
C13_ArgsMatchParameters ==
    (bPc = "done" /\ bResult.kind = "return") =>
        Len(bResult.handler.handlerArgs) = ParameterCount(bResult.handler.handler)


\* The factories registered in opts and the positions of those that produce a
\* processor.
Factories == Declared(bOpts.requestDataProcessorFactories)
Producing == {i \in 1..Len(Factories) : Factories[i] = "processor"}

\* C14: in every successful build each registered factory is called exactly
\* once, in registration order, with the resolved controller and handler, and
\* the processor list is the factories' outputs in that order without the
\* declined (null or undefined) ones.
C14_FactoriesOnceInOrder ==
    (bPc = "done" /\ bResult.kind = "return") =>
        LET made == bResult.handler.processors IN
        /\ Len(bCalls) = 2 + Len(Factories)
        /\ \A i \in 1..Len(Factories) :
              bCalls[2 + i] = Call("factory", i, bResult.handler.controller,
                                   bResult.handler.handler)
        /\ Len(made) = Cardinality(Producing)
        /\ \A k \in 1..Len(made) : made[k].t = "processor" /\ made[k].id \in Producing
        /\ \A k, l \in 1..Len(made) : k < l => made[k].id < made[l].id

\* A build whose first factory declines with undefined and whose second
\* produces a processor.
C14_Witness ==
    /\ bPc = "done"
    /\ bResult.kind = "return"
    /\ Factories = <<"undefined", "processor">>
    /\ bResult.handler.processors = <<[t |-> "processor", id |-> 2]>>


-----------------------------------------------------------------------------
(* Claims about createValueProcessor *)

\* The processor that was called last, its schema and the validator's verdict
\* on the wrapped candidate.
Called == procCall.processor # 0
CalledSchema == processors[procCall.processor].schema
Verdict == AjvValidate([object |-> 0, value |-> CalledSchema], [value |-> procCall.value])

\* C2: a value processor either returns the value property of the validated
\* wrapper or throws the validator's errors; it never returns a value for a
\* candidate the validator rejected.
C2_ReturnsValidatedOrThrows ==
    Called =>
        /\ procResult.kind \in {"return", "throw"}
        /\ procResult.kind = "return" =>
              /\ Verdict.valid
              /\ procResult.value = Verdict.wrapper.value
        /\ procResult.kind = "throw" =>
              /\ ~Verdict.valid
              /\ procResult.errors = Verdict.errors

\* The processor of a number schema has thrown for the candidate "abc".
C2_Witness ==
    /\ Called
    /\ CalledSchema.type = "number"
    /\ procCall.value = Val("string", "abc")
    /\ procResult.kind = "throw"
    /\ procResult.errors # <<>>

\* How often a schema fragment was requested and how often it was compiled.
Requests(schema) == Cardinality({i \in 1..Len(processors) : processors[i].schema = schema})
Compilations(schema) == Cardinality({k \in 1..Len(ajvCache) : ajvCache[k].value = schema})

\* C3: over any sequence of createValueProcessor requests, each schema fragment
\* that was requested has been compiled exactly once.
C3_CompiledExactlyOnce ==
    \A schema \in Schemas : Requests(schema) > 0 => Compilations(schema) = 1

\* What the code does instead: one compilation per request, none per call.
C3_CompiledPerRequest ==
    \A schema \in Schemas : Compilations(schema) = Requests(schema)


\* C12: when a value processor rejects a candidate, the errors it reports have
\* the wrapper's synthetic value segment stripped: no reported location points
\* into the wrapper object.
C12_ErrorsWithoutWrapperSegment ==
    (Called /\ procResult.kind = "throw") =>
        \A k \in 1..Len(procResult.errors) : procResult.errors[k].instancePath # "/value"


-----------------------------------------------------------------------------
(* Claims about the parameter decorators *)

\* The setMethodParameterType calls made for an index, as positions in the log.
CallsFor(i) == {k \in 1..Len(mCalls) : mCalls[k].index = i}
FirstFor(i) == CHOOSE k \in CallsFor(i) : \A l \in CallsFor(i) : k <= l
DescriptorAt(i) ==
    IF mArgs.defined /\ i + 1 <= Len(mArgs.items) THEN mArgs.items[i + 1] ELSE Hole

\* C15: after any sequence of setMethodParameterType calls every index holds
\* the descriptor of the first call made for it: that call set exactly that
\* index, every later call for the index threw the cannot-redefine error, and a
\* call that threw left the argument list as it was.
C15_FirstDescriptorKept ==
    /\ \A i \in Indexes :
          /\ CallsFor(i) = {} => DescriptorAt(i) = Hole
          /\ CallsFor(i) # {} =>
                /\ DescriptorAt(i) = mCalls[FirstFor(i)].arg
                /\ \A k \in CallsFor(i) : mCalls[k].threw <=> k # FirstFor(i)
    /\ (mResult.kind = "throw" /\ mResult.error = "cannot redefine the parameter type")
          => mArgs = mPrev.args
    /\ (mResult.kind = "return" /\ mCalls # <<>>) =>
          \A i \in Indexes :
              i # mCalls[Len(mCalls)].index =>
                  DescriptorAt(i) = (IF mPrev.args.defined /\ i + 1 <= Len(mPrev.args.items)
                                     THEN mPrev.args.items[i + 1] ELSE Hole)

\* Index 1 was given a descriptor, a second call for it with another descriptor
\* threw, and index 0 is still empty.
C15_Witness ==
    /\ Len(mCalls) >= 2
    /\ mCalls[1].index = 1
    /\ mCalls[2].index = 1
    /\ mCalls[2].arg # mCalls[1].arg
    /\ mCalls[2].threw
    /\ mResult.kind = "throw"
    /\ DescriptorAt(1) = mCalls[1].arg
    /\ DescriptorAt(0) = Hole

\* C16: whenever applying a parameter decorator throws, the method's metadata
\* is as it was before: no parameter entry and no argument descriptor was added.
C16_DecoratorAllOrNothing ==
    (mResult.op = "decorator" /\ mResult.kind = "throw") =>
        /\ mParameters = mPrev.parameters
        /\ mArgs = mPrev.args

\* What holds when it throws: the argument descriptors are as they were.
C16_ArgsKeptOnThrow ==
    (mResult.op = "decorator" /\ mResult.kind = "throw") => mArgs = mPrev.args


====
